---- MODULE Spec2Model ----
(***************************************************************************)
(* Pharmacy Partnership Analyzer: the Streamlit scripts app.py and         *)
(* simulation_placement_thresholdcategory.py as a state machine.           *)
(*                                                                         *)
(* A Streamlit script is re-executed from its first line on every user     *)
(* interaction (an upload, a widget change, a button click).  Each action  *)
(* of this model is therefore one complete execution of the script with    *)
(* the widget values of that interaction; the only state that survives     *)
(* between executions is the widget state and st.session_state["runs"].    *)
(*                                                                         *)
(* Modelling conventions:                                                  *)
(*  - a table (DataFrame) is [columns |-> set of names, rows |-> sequence  *)
(*    of rows]; a row is a function from column name to cell value;        *)
(*  - pandas semantics are those of pandas 1.x/2.x: a groupby on a         *)
(*    Categorical key has observed=False by default, so every category     *)
(*    yields a group, also an empty one;                                   *)
(*  - the input columns are plain (non-categorical) columns, as            *)
(*    read_csv/read_excel produce them;                                    *)
(*  - a missing cell is modelled for the tier column only (NoTier);        *)
(*  - revenue amounts are exact integers (floating-point rounding is not   *)
(*    modelled);                                                           *)
(*  - a numeric cell that may be missing (NaN) after a left merge is a     *)
(*    sequence: <<n>> for the number n, <<>> for NaN;                      *)
(*  - a session uploads one file; a multiselect or a number input changes  *)
(*    by one option or one field per execution, as each change of a widget *)
(*    re-runs the script at once.                                          *)
(***************************************************************************)
EXTENDS Integers, Sequences, FiniteSets, TLC

VARIABLES
    program,               \* which of the two scripts this session runs
    uploaded_file,         \* TRUE once the file_uploader holds a file
    df,                    \* the table loaded from the uploaded file
    channels, products, causale, canale, scope_filter,  \* multiselect values
    thresholds,            \* the four st.sidebar.number_input values
    clicked,               \* the button whose click caused the last execution
    status,                \* "idle" | "done" | "error": how the last execution ended
    error,                 \* the exception that ended it ("" when none)
    \* what the last execution produced; each is None until the execution
    \* reaches the statement that builds it, Some(table) after
    df_filtered,           \* rows left by the user filters
    merged_pharmacies,     \* rows left by the fixed eligibility rule
    all_pharmacy_revenue,  \* one row per pharmacy: total revenue, category
    threshold_data,        \* all_pharmacy_revenue merged with tier counts
    category_table_pivot,  \* category -> column of pharmacy ids
    summary_table,         \* per-category count and revenue, plus total row
    runs,                  \* st.session_state["runs"]: run id -> record
    now                    \* datetime.datetime.now(), as a logical clock

vars == <<program, uploaded_file, df, channels, products, causale, canale, scope_filter,
          thresholds, clicked, status, error, df_filtered, merged_pharmacies,
          all_pharmacy_revenue, threshold_data, category_table_pivot,
          summary_table, runs, now>>

-----------------------------------------------------------------------------
(* Column names and cell values of the input table *)

CodCRM == "Cod CRM"
Channel == "Channel"
ProductType == "Product_Type"
Causale == "Causale"
Canale == "Canale"
ScopeFilter == "Out of Scope \nFilter"
ClusterCheck == " Cluster Check "
Tier == "tier"
Brand == "Brand"
Revenue == "Net Price 1 Revenue (Imponibile)"

AllColumns == {CodCRM, Channel, ProductType, Causale, Canale, ScopeFilter,
               ClusterCheck, Tier, Brand, Revenue}

IndependentPharmacies == "Independent Pharmacies"
Vendita == "Vendita"
InScopeValue == "In scope"
ClusterCodes == {" 1.EL ", " 2.L "}
Tier23 == {"Tier 2", "Tier 3"}

\* an empty tier cell (NaN after loading)
NoTier == "NaN"

\* a missing numeric value after a merge or in a padded column
NaN == <<>>

Num(n) == <<n>>

\* pandas addition: NaN is absorbing
Plus(a, b) == IF a = NaN \/ b = NaN THEN NaN ELSE <<a[1] + b[1]>>

-----------------------------------------------------------------------------
(* Sequence helpers *)

Range(s) == {s[i] : i \in DOMAIN s}

\* df[df[col].isin(values)]: the rows kept stay in their original order
Isin(rows, col, values) == SelectSeq(rows, LAMBDA r : r[col] \in values)

Min(S) == CHOOSE x \in S : \A y \in S : x <= y

RECURSIVE SortedKeys(_)
\* the group keys of a groupby, which sorts them (sort=True is the default)
SortedKeys(S) ==
    IF S = {} THEN <<>>
    ELSE <<Min(S)>> \o SortedKeys(S \ {Min(S)})

RECURSIVE SumColumn(_, _)
\* .sum() of a column over the rows of one group, accumulated in row order
SumColumn(rows, col) ==
    IF rows = <<>> THEN 0
    ELSE rows[1][col] + SumColumn(Tail(rows), col)

RECURSIVE Unique(_, _)
\* the distinct values of a column, collected in row order
Unique(rows, col) ==
    IF rows = <<>> THEN {}
    ELSE {rows[1][col]} \cup Unique(Tail(rows), col)

NUnique(rows, col) == Cardinality(Unique(rows, col))


-----------------------------------------------------------------------------
(* Record Filter *)

Ok(rows) == [error |-> "", rows |-> rows]
Raise(e) == [error |-> e, rows |-> <<>>]

\* app.py "Apply filters".  channels and products are always bound
\* (channels = products = []); causale, canale and scope_filter are bound
\* only inside `if <column> in df.columns`, so reading them when the column
\* is absent raises NameError.
ApplyFilters(table, ch, pr, ca, cn, sf) ==
    LET f0 == table.rows
        f1 == IF ch # {} THEN Isin(f0, Channel, ch) ELSE f0
        f2 == IF pr # {} THEN Isin(f1, ProductType, pr) ELSE f1
        f3 == IF ca # {} THEN Isin(f2, Causale, ca) ELSE f2
        f4 == IF cn # {} THEN Isin(f3, Canale, cn) ELSE f3
        f5 == IF sf # {} THEN Isin(f4, ScopeFilter, sf) ELSE f4
    IN  IF Causale \notin table.columns THEN Raise("NameError: causale")
        ELSE IF Canale \notin table.columns THEN Raise("NameError: canale")
        ELSE IF ScopeFilter \notin table.columns
             THEN Raise("NameError: scope_filter")
        ELSE Ok(f5)

\* the rule without its cluster check
InScopeAnyCluster(r) ==
    /\ r[Channel] = IndependentPharmacies
    /\ r[Causale] = Vendita
    /\ r[ScopeFilter] = InScopeValue

\* the fixed eligibility rule on one row
InScope(r) ==
    /\ r[Channel] = IndependentPharmacies
    /\ r[Causale] = Vendita
    /\ r[ScopeFilter] = InScopeValue
    /\ r[ClusterCheck] \in ClusterCodes

\* the rule applied to the columns present only, like the user filters
MergedPharmaciesLenient(columns, rows) ==
    Ok(SelectSeq(rows, LAMBDA r :
        /\ Channel \in columns => r[Channel] = IndependentPharmacies
        /\ Causale \in columns => r[Causale] = Vendita
        /\ ScopeFilter \in columns => r[ScopeFilter] = InScopeValue
        /\ ClusterCheck \in columns => r[ClusterCheck] \in ClusterCodes))

\* "Filtering merged pharmacies": indexing an absent column raises KeyError
\* naming it; the mask's operands are evaluated left to right.
MergedPharmacies(columns, rows) ==
    IF Channel \notin columns THEN Raise("KeyError: Channel")
    ELSE IF Causale \notin columns THEN Raise("KeyError: Causale")
    ELSE IF ScopeFilter \notin columns
         THEN Raise("KeyError: Out of Scope \nFilter")
    ELSE IF ClusterCheck \notin columns
         THEN Raise("KeyError:  Cluster Check ")
    ELSE Ok(SelectSeq(rows, InScope))

-----------------------------------------------------------------------------
(* Aggregator *)

\* the rows of one pharmacy, in table order
GroupRows(rows, crm) == SelectSeq(rows, LAMBDA r : r[CodCRM] = crm)

RECURSIVE KeysInOrder(_, _)
\* the distinct keys in order of first appearance
KeysInOrder(rows, seen) ==
    IF rows = <<>> THEN <<>>
    ELSE IF rows[1][CodCRM] \in seen THEN KeysInOrder(Tail(rows), seen)
    ELSE <<rows[1][CodCRM]>> \o KeysInOrder(Tail(rows), seen \cup {rows[1][CodCRM]})

\* the groupby with sort=False: groups in order of first appearance
GroupSumUnsorted(rows, name) ==
    LET keys == KeysInOrder(rows, {})
    IN  [i \in 1..Len(keys) |->
            (CodCRM :> keys[i]) @@
            (name :> SumColumn(GroupRows(rows, keys[i]), Revenue))]

\* groupby('Cod CRM')[Revenue].sum().reset_index(name=name)
GroupSum(rows, name) ==
    LET keys == SortedKeys(Unique(rows, CodCRM))
    IN  [i \in 1..Len(keys) |->
            (CodCRM :> keys[i]) @@
            (name :> SumColumn(GroupRows(rows, keys[i]), Revenue))]

AllPharmacyRevenue(mp) == GroupSum(mp, "total_net1rev_imponibile")

RevTier23(mp) ==
    GroupSum(SelectSeq(mp, LAMBDA r : r[Tier] \in Tier23),
             "tier23_net1rev_imponibile")

\* groupby(['Cod CRM', 'tier'])['Brand'].nunique(): a groupby drops the rows
\* whose key is missing (dropna=True), here the rows with an empty tier cell.
\* The result is keyed by the observed (Cod CRM, tier) pairs.
TierCounts(mp) ==
    LET keyed == SelectSeq(mp, LAMBDA r : r[Tier] # NoTier)
        pairs == {<<r[CodCRM], r[Tier]>> : r \in Range(keyed)}
    IN  [p \in pairs |->
            NUnique(SelectSeq(keyed, LAMBDA r : r[CodCRM] = p[1] /\ r[Tier] = p[2]),
                    Brand)]

\* tier_counts.pivot(index='Cod CRM', columns='tier').fillna(0).reset_index():
\* one row per pharmacy of tier_counts, one column per tier of tier_counts
TierCountsPivot(tc) ==
    LET index == {p[1] : p \in DOMAIN tc}
        tiers == {p[2] : p \in DOMAIN tc}
    IN  [columns |-> tiers,
         rows |-> [crm \in index |->
                     [t \in tiers |->
                        IF <<crm, t>> \in DOMAIN tc THEN tc[<<crm, t>>] ELSE 0]]]

\* the value of one cell after a left merge on 'Cod CRM'
Lookup(tbl, crm, col) ==
    IF \E i \in DOMAIN tbl : tbl[i][CodCRM] = crm
    THEN Num((tbl[CHOOSE i \in DOMAIN tbl : tbl[i][CodCRM] = crm])[col])
    ELSE NaN

\* threshold_data.get(col, 0) for one row: the column's cell, or the scalar 0
GetOrZero(pivot, crm, col) ==
    IF col \in pivot.columns
    THEN (IF crm \in DOMAIN pivot.rows THEN Num(pivot.rows[crm][col]) ELSE NaN)
    ELSE Num(0)

\* all_pharmacy_revenue.merge(pivot, how="left").merge(rev_tier23, how="left")
\* and the "Tier 2 & 3" column
ThresholdData(apr, pivot, rt23) ==
    [i \in DOMAIN apr |->
        LET crm == apr[i][CodCRM]
        IN  (CodCRM :> crm) @@
            ("total_net1rev_imponibile" :> apr[i].total_net1rev_imponibile) @@
            ("tiers" :> [t \in pivot.columns |->
                           IF crm \in DOMAIN pivot.rows
                           THEN Num(pivot.rows[crm][t]) ELSE NaN]) @@
            ("tier23_net1rev_imponibile" :>
                Lookup(rt23, crm, "tier23_net1rev_imponibile")) @@
            ("Tier 2 & 3" :> Plus(GetOrZero(pivot, crm, "Tier 2"),
                                  GetOrZero(pivot, crm, "Tier 3")))]


-----------------------------------------------------------------------------
(* Classifier *)

order == <<"Silver", "Gold", "Platinum", "Unassigned">>

SilverRule(r, t) == r > t.silver_min
GoldRule(r, t) == r >= t.gold_min /\ r < t.gold_max

\* the Platinum bound taken as exclusive
PlatinumRuleStrict(r, t) == r > t.platinum_min

PlatinumRule(r, t) == r >= t.platinum_min

\* the revenue column
TotalRevenue(apr) == [i \in DOMAIN apr |-> apr[i].total_net1rev_imponibile]

\* all_pharmacy_revenue.loc[mask, 'partnership_category'] = cat
SetWhere(apr, mask, cat) ==
    [i \in DOMAIN apr |->
        IF mask[i] THEN [apr[i] EXCEPT !["partnership_category"] = cat]
        ELSE apr[i]]

\* the Gold pass run after the Platinum pass
AssignCategoriesGoldLast(apr, t) ==
    LET a0 == [i \in DOMAIN apr |->
                  apr[i] @@ ("partnership_category" :> "Unassigned")]
        a1 == SetWhere(a0, [i \in DOMAIN a0 |->
                               SilverRule(TotalRevenue(a0)[i], t)], "Silver")
        a2 == SetWhere(a1, [i \in DOMAIN a1 |->
                               PlatinumRule(TotalRevenue(a1)[i], t)], "Platinum")
        a3 == SetWhere(a2, [i \in DOMAIN a2 |->
                               GoldRule(TotalRevenue(a2)[i], t)], "Gold")
    IN  a3

\* "Assign categories": one column-wide pass per rule, each overwriting the
\* result of the passes before it
AssignCategories(apr, t) ==
    LET a0 == [i \in DOMAIN apr |->
                  apr[i] @@ ("partnership_category" :> "Unassigned")]
        a1 == SetWhere(a0, [i \in DOMAIN a0 |->
                               SilverRule(TotalRevenue(a0)[i], t)], "Silver")
        a2 == SetWhere(a1, [i \in DOMAIN a1 |->
                               GoldRule(TotalRevenue(a1)[i], t)], "Gold")
        a3 == SetWhere(a2, [i \in DOMAIN a2 |->
                               PlatinumRule(TotalRevenue(a2)[i], t)], "Platinum")
    IN  a3

-----------------------------------------------------------------------------
(* Table Builder *)

\* the rows of one category, in table order
CategoryRows(apr, cat) ==
    SelectSeq(apr, LAMBDA r : r.partnership_category = cat)

\* the groups of the observed categories other than Unassigned only
CategoryTableRankedOnly(apr) ==
    [c \in Range(order) |->
        LET g == CategoryRows(apr, c)
        IN  IF c = "Unassigned" THEN <<>> ELSE [i \in DOMAIN g |-> g[i][CodCRM]]]

\* groupby('partnership_category')['Cod CRM'].apply(list): the key is an
\* ordered Categorical, so each of the four categories is a group
CategoryTable(apr) ==
    [c \in Range(order) |->
        LET g == CategoryRows(apr, c) IN [i \in DOMAIN g |-> g[i][CodCRM]]]

MaxLen(ct) ==
    IF \A c \in DOMAIN ct : ct[c] = <<>> THEN 0
    ELSE CHOOSE n \in {Len(ct[c]) : c \in DOMAIN ct} :
             \A c \in DOMAIN ct : Len(ct[c]) <= n

\* pd.concat({cat: pd.Series(ids)}, axis=1): the columns are aligned on the
\* row index, the shorter ones padded with NaN
CategoryTablePivot(ct) ==
    [c \in DOMAIN ct |->
        [i \in 1..MaxLen(ct) |-> IF i <= Len(ct[c]) THEN Num(ct[c][i]) ELSE NaN]]

\* groupby('partnership_category').agg(count, sum).reset_index()
SummaryRows(apr) ==
    [i \in DOMAIN order |->
        [partnership_category |-> order[i],
         num_pharmacies |-> Len(CategoryRows(apr, order[i])),
         total_revenue |->
             SumColumn(CategoryRows(apr, order[i]), "total_net1rev_imponibile")]]

TotalLabel == "Total Net 1 Rev Imponibile (ex-Unassigned)"

\* the query left out: every category row is summed
NoUnassignedKeepsAll(summary) == summary

\* summary_table.query("partnership_category != 'Unassigned'")
NoUnassigned(summary) ==
    SelectSeq(summary, LAMBDA r : r.partnership_category # "Unassigned")

\* "Add total row (excluding Unassigned)"
TotalRow(summary) ==
    [partnership_category |-> TotalLabel,
     num_pharmacies |-> SumColumn(NoUnassigned(summary), "num_pharmacies"),
     total_revenue |-> SumColumn(NoUnassigned(summary), "total_revenue")]

SummaryTable(apr) == Append(SummaryRows(apr), TotalRow(SummaryRows(apr)))

-----------------------------------------------------------------------------
(* One execution of a script *)

None == <<>>
Some(x) == <<x>>

\* what an execution leaves when it stops at an exception
Aborted(e, filtered) ==
    [status |-> "error", error |-> e, df_filtered |-> filtered,
     merged_pharmacies |-> None, all_pharmacy_revenue |-> None,
     threshold_data |-> None, category_table_pivot |-> None,
     summary_table |-> None]

\* "Filtering merged pharmacies" to "Create tables": shared by both scripts
Engine(columns, rows, filtered, t) ==
    LET mp == MergedPharmacies(columns, rows)
        apr == AllPharmacyRevenue(mp.rows)
        td == ThresholdData(apr, TierCountsPivot(TierCounts(mp.rows)),
                            RevTier23(mp.rows))
        cat == AssignCategories(apr, t)
    IN  IF mp.error # "" THEN Aborted(mp.error, filtered)
        ELSE [status |-> "done", error |-> "", df_filtered |-> filtered,
              merged_pharmacies |-> Some(mp.rows),
              all_pharmacy_revenue |-> Some(cat),
              threshold_data |-> Some(td),
              category_table_pivot |-> Some(CategoryTablePivot(CategoryTable(cat))),
              summary_table |-> Some(SummaryTable(cat))]

\* app.py from "Apply filters" to "Display tables"
RunApp(table, ch, pr, ca, cn, sf, t) ==
    LET f == ApplyFilters(table, ch, pr, ca, cn, sf)
    IN  IF f.error # "" THEN Aborted(f.error, None)
        ELSE Engine(table.columns, f.rows, Some(f.rows), t)

\* simulation_placement_thresholdcategory.py: no user filters
RunPlacement(table, t) == Engine(table.columns, table.rows, None, t)

RunScript(prog, table, ch, pr, ca, cn, sf, t) ==
    IF prog = "app" THEN RunApp(table, ch, pr, ca, cn, sf, t)
    ELSE RunPlacement(table, t)


-----------------------------------------------------------------------------
(* Run Store *)

\* the id numbered by the length without the + 1, floored at 1
RunIdFromLength(store) ==
    IF Cardinality(DOMAIN store) = 0 THEN 1 ELSE Cardinality(DOMAIN store)

\* run_id = f"run_{len(st.session_state['runs']) + 1}", as its number
RunId(store) == Cardinality(DOMAIN store) + 1

\* st.session_state['runs'][run_id] = record: a dict assignment, which
\* replaces the record of a key already present
StoreRecord(store, id, record) ==
    [k \in DOMAIN store \cup {id} |-> IF k = id THEN record ELSE store[k]]

\* st.session_state['runs'] = {}
Cleared == <<>>

\* the record built by "Store this run"
RunRecord(ts, ch, pr, t, res) ==
    [timestamp |-> ts,
     filters |-> [Channel |-> ch, Product_Type |-> pr],
     thresholds |-> t,
     all_pharmacy_revenue |-> res.all_pharmacy_revenue[1],
     category_table_pivot |-> res.category_table_pivot[1],
     summary_table |-> res.summary_table[1]]

-----------------------------------------------------------------------------
(* Bounds and input domains *)

\* rows of an uploaded table, per specification
MaxRowsFilter == 2
MaxRowsClassify == 2
MaxRowsAggregate == 3
MaxRowsStore == 1
\* "Store this run" clicks in one session
MaxStores == 2

Programs == {"app", "placement"}

Row(crm, ch, pt, ca, cn, sc, cl, tier, brand, rev) ==
    (CodCRM :> crm) @@ (Channel :> ch) @@ (ProductType :> pt) @@
    (Causale :> ca) @@ (Canale :> cn) @@ (ScopeFilter :> sc) @@
    (ClusterCheck :> cl) @@ (Tier :> tier) @@ (Brand :> brand) @@
    (Revenue :> rev)

\* a row that satisfies the fixed eligibility rule
Eligible(crm, tier, brand, rev) ==
    Row(crm, IndependentPharmacies, "Rx", Vendita, "Direct", InScopeValue,
        " 1.EL ", tier, brand, rev)

\* rows that differ from an eligible one in a single filter column; the
\* revenues are distinct powers of two times 100, so that a total tells
\* which rows were summed
FilterRows ==
    {Eligible(101, "Tier 2", "B1", 100),
     [Eligible(101, "Tier 2", "B1", 200) EXCEPT ![Channel] = "Hospitals"],
     [Eligible(102, "Tier 2", "B1", 400) EXCEPT ![Causale] = "Reso"],
     [Eligible(102, "Tier 2", "B1", 800) EXCEPT ![ScopeFilter] = "Out of scope"],
     [Eligible(103, "Tier 2", "B1", 1600) EXCEPT ![ClusterCheck] = " 3.M "],
     [Eligible(103, "Tier 2", "B1", 3200) EXCEPT ![ClusterCheck] = " 2.L "],
     [Eligible(101, "Tier 2", "B1", 6400) EXCEPT ![ProductType] = "OTC"],
     [Eligible(102, "Tier 2", "B1", 12800) EXCEPT ![Canale] = "Wholesale"]}

ClassifyRows ==
    {Eligible(crm, "Tier 2", "B1", rev) :
        crm \in {101, 102}, rev \in {500, 1000, 1500, 2500}}

\* two pharmacies; rows in Tier 1, 2 and 3 and without a tier, two brands
AggregateRows ==
    {Eligible(crm, x[1], x[2], x[3]) :
        crm \in {101, 102},
        x \in {<<"Tier 1", "B1", 500>>,
               <<"Tier 2", "B1", 500>>, <<"Tier 2", "B2", 1000>>,
               <<"Tier 3", "B1", 500>>, <<"Tier 3", "B2", 1000>>,
               <<NoTier, "B2", 1000>>}}

StoreRows ==
    {Eligible(101, "Tier 2", "B1", 1500),
     Eligible(102, "Tier 3", "B2", 2500),
     [Eligible(103, "Tier 2", "B1", 500) EXCEPT ![ProductType] = "OTC"]}

SeqsUpTo(S, n) == UNION {[1..k -> S] : k \in 0..n}

\* the columns a filter widget or the fixed rule reads
FilterColumns == {Channel, ProductType, Causale, Canale, ScopeFilter, ClusterCheck}

\* the full set of columns, or all but one of FilterColumns
ColumnSets == {AllColumns} \cup {AllColumns \ {c} : c \in FilterColumns}

Table(columns, rows) ==
    [columns |-> columns,
     rows |-> [i \in DOMAIN rows |-> [c \in columns |-> rows[i][c]]]]

FilterFiles ==
    {Table(cs, rows) : cs \in ColumnSets, rows \in SeqsUpTo(FilterRows, MaxRowsFilter)}
ClassifyFiles ==
    {Table(AllColumns, rows) : rows \in SeqsUpTo(ClassifyRows, MaxRowsClassify)}
AggregateFiles ==
    {Table(AllColumns, rows) : rows \in SeqsUpTo(AggregateRows, MaxRowsAggregate)}
StoreFiles ==
    {Table(AllColumns, rows) : rows \in SeqsUpTo(StoreRows, MaxRowsStore)}

ThresholdFields == {"silver_min", "gold_min", "gold_max", "platinum_min"}
ThresholdValues == {1000, 1500, 2000}

\* the number_input defaults (value=1000, 1000, 2000, 2000)
DefaultThresholds ==
    [silver_min |-> 1000, gold_min |-> 1000, gold_max |-> 2000,
     platinum_min |-> 2000]

-----------------------------------------------------------------------------
(* The state machine *)

EmptyTable == [columns |-> {}, rows |-> <<>>]

Init ==
    /\ program \in Programs
    /\ uploaded_file = FALSE
    /\ df = EmptyTable
    /\ channels = {} /\ products = {} /\ causale = {} /\ canale = {}
    /\ scope_filter = {}
    /\ thresholds = DefaultThresholds
    /\ clicked = ""
    /\ status = "idle"
    /\ error = ""
    /\ df_filtered = None
    /\ merged_pharmacies = None
    /\ all_pharmacy_revenue = None
    /\ threshold_data = None
    /\ category_table_pivot = None
    /\ summary_table = None
    /\ runs = <<>>
    /\ now = 0

\* the outcome of the execution becomes what the page shows
Show(res) ==
    /\ status' = res.status
    /\ error' = res.error
    /\ df_filtered' = res.df_filtered
    /\ merged_pharmacies' = res.merged_pharmacies
    /\ all_pharmacy_revenue' = res.all_pharmacy_revenue
    /\ threshold_data' = res.threshold_data
    /\ category_table_pivot' = res.category_table_pivot
    /\ summary_table' = res.summary_table

NameErrors == {"NameError: causale", "NameError: canale", "NameError: scope_filter"}

\* the threshold inputs are drawn after "Apply filters" in app.py and before
\* any statement that can raise in the other script
ThresholdsRendered ==
    /\ uploaded_file
    /\ program = "app" => error \notin NameErrors

\* the two buttons are drawn after the tables, in app.py only
ButtonsRendered == program = "app" /\ status = "done"

\* the user uploads a file: first execution past `if uploaded_file:`, with
\* every multiselect empty
Upload(files) ==
    /\ ~uploaded_file
    /\ \E f \in files :
        /\ df' = f
        /\ Show(RunScript(program, f, {}, {}, {}, {}, {}, thresholds))
    /\ uploaded_file' = TRUE
    /\ clicked' = ""
    /\ UNCHANGED <<program, channels, products, causale, canale, scope_filter,
                   thresholds, runs, now>>

Toggle(S, v) == IF v \in S THEN S \ {v} ELSE S \cup {v}

\* the user adds or removes one option of one multiselect of app.py; a
\* multiselect exists only for a column of the table and offers its values
ToggleFilter(widgets) ==
    /\ program = "app"
    /\ uploaded_file
    /\ \E w \in widgets \cap df.columns : \E v \in Unique(df.rows, w) :
        LET ch == IF w = Channel THEN Toggle(channels, v) ELSE channels
            pr == IF w = ProductType THEN Toggle(products, v) ELSE products
            ca == IF w = Causale THEN Toggle(causale, v) ELSE causale
            cn == IF w = Canale THEN Toggle(canale, v) ELSE canale
            sf == IF w = ScopeFilter THEN Toggle(scope_filter, v) ELSE scope_filter
        IN  /\ channels' = ch /\ products' = pr /\ causale' = ca
            /\ canale' = cn /\ scope_filter' = sf
            /\ Show(RunScript(program, df, ch, pr, ca, cn, sf, thresholds))
    /\ clicked' = ""
    /\ UNCHANGED <<program, uploaded_file, df, thresholds, runs, now>>

\* the user changes one threshold input
SetThreshold(fields, values) ==
    /\ ThresholdsRendered
    /\ \E k \in fields : \E v \in values \ {thresholds[k]} :
        LET t == [thresholds EXCEPT ![k] = v]
        IN  /\ thresholds' = t
            /\ Show(RunScript(program, df, channels, products, causale, canale,
                              scope_filter, t))
    /\ clicked' = ""
    /\ UNCHANGED <<program, uploaded_file, df, channels, products, causale,
                   canale, scope_filter, runs, now>>

\* the user clicks "Store this run": the script runs again and, on reaching
\* the button, stores the tables it has just built
StoreRun ==
    /\ ButtonsRendered
    /\ now < MaxStores
    /\ LET res == RunScript(program, df, channels, products, causale, canale,
                            scope_filter, thresholds)
       IN  /\ Show(res)
           /\ runs' = IF res.status = "done"
                      THEN StoreRecord(runs, RunId(runs),
                                       RunRecord(now, channels, products,
                                                 thresholds, res))
                      ELSE runs
    /\ now' = now + 1
    /\ clicked' = "Store this run"
    /\ UNCHANGED <<program, uploaded_file, df, channels, products, causale,
                   canale, scope_filter, thresholds>>

\* the user clicks "Clear all stored runs"
ClearRuns ==
    /\ ButtonsRendered
    /\ LET res == RunScript(program, df, channels, products, causale, canale,
                            scope_filter, thresholds)
       IN  /\ Show(res)
           /\ runs' = IF res.status = "done" THEN Cleared ELSE runs
    /\ clicked' = "Clear all stored runs"
    /\ UNCHANGED <<program, uploaded_file, df, channels, products, causale,
                   canale, scope_filter, thresholds, now>>

AllWidgets == {Channel, ProductType, Causale, Canale, ScopeFilter}

\* a session with the run store: few inputs, every operation
Next ==
    \/ Upload(StoreFiles)
    \/ ToggleFilter({ProductType})
    \/ SetThreshold({"gold_max"}, {1000, 2000})
    \/ StoreRun
    \/ ClearRuns

Spec == Init /\ [][Next]_vars

\* sessions that exercise the record filter
NextFilter == Upload(FilterFiles) \/ ToggleFilter(AllWidgets)

SpecFilter == Init /\ [][NextFilter]_vars

\* sessions that exercise the classifier and the table builder
NextClassify ==
    Upload(ClassifyFiles) \/ SetThreshold(ThresholdFields, ThresholdValues)

SpecClassify == Init /\ [][NextClassify]_vars

\* sessions that exercise the aggregator
NextAggregate == Upload(AggregateFiles)

SpecAggregate == Init /\ [][NextAggregate]_vars


-----------------------------------------------------------------------------
(* Properties of the classifier and the table builder (SpecClassify) *)

\* the tables of the last execution
Aggregate == all_pharmacy_revenue[1]
Pivot == category_table_pivot[1]
Summary == summary_table[1]

\* the rules in their fixed order: Unassigned matches always
RuleNames == <<"Unassigned", "Silver", "Gold", "Platinum">>

Matches(k, r, t) ==
    CASE k = 1 -> TRUE
      [] k = 2 -> r > t.silver_min
      [] k = 3 -> t.gold_min <= r /\ r < t.gold_max
      [] k = 4 -> r >= t.platinum_min

\* the category of the last rule that matches r
LastMatch(r, t) ==
    RuleNames[CHOOSE k \in 1..4 :
                 /\ Matches(k, r, t)
                 /\ \A j \in (k + 1)..4 : ~Matches(j, r, t)]

CategoryOf(r) == r.partnership_category
TotalOf(r) == r.total_net1rev_imponibile

\* C1: whatever the four thresholds are, every pharmacy gets the category of
\* the last rule, in the order Unassigned, Silver, Gold, Platinum, that its
\* total revenue matches.  With the thresholds 1000/1000/2000/2000 a total of
\* 1500 is Gold, 2500 is Platinum, 500 is Unassigned and 1000 (= gold_min) is
\* Gold.  A total equal to gold_max is never Gold, a total equal to
\* silver_min is never Silver, and a total equal to gold_min that is below
\* gold_max is Gold or Platinum.
C1_LastMatchingRuleWins ==
    status = "done" =>
        \A i \in DOMAIN Aggregate :
            LET r == TotalOf(Aggregate[i])
                c == CategoryOf(Aggregate[i])
                t == thresholds
            IN  /\ c = LastMatch(r, t)
                /\ t = DefaultThresholds =>
                      /\ r = 1500 => c = "Gold"
                      /\ r = 2500 => c = "Platinum"
                      /\ r = 500 => c = "Unassigned"
                      /\ r = t.gold_min => c = "Gold"
                /\ r = t.gold_max => c # "Gold"
                /\ r = t.silver_min => c # "Silver"
                /\ (r = t.gold_min /\ r < t.gold_max) => c \in {"Gold", "Platinum"}

\* the scenario of C1: Gold by overwriting Silver next to a Platinum pharmacy
C1_Witness ==
    /\ status = "done"
    /\ thresholds = DefaultThresholds
    /\ \E i, j \in DOMAIN Aggregate :
        /\ TotalOf(Aggregate[i]) = 1500 /\ CategoryOf(Aggregate[i]) = "Gold"
        /\ TotalOf(Aggregate[j]) = 2500 /\ CategoryOf(Aggregate[j]) = "Platinum"

\* the cells of a pivot column that hold an identifier
IdsIn(col) == {col[i][1] : i \in {j \in DOMAIN col : col[j] # NaN}}

\* how many cells of the whole pivot hold this identifier
Occurrences(id) ==
    Cardinality({<<c, i>> \in (DOMAIN Pivot) \X (1..MaxLen(Pivot)) :
                    i \in DOMAIN Pivot[c] /\ Pivot[c][i] = Num(id)})

\* C5: every pharmacy of the aggregate has one of the four categories and
\* its identifier is in exactly one cell of the pivot, in the column of its
\* category; the pivot holds no identifier that is not in the aggregate.
C5_PivotRoundTrip ==
    status = "done" =>
        /\ DOMAIN Pivot = Range(order)
        /\ \A i \in DOMAIN Aggregate :
            /\ CategoryOf(Aggregate[i]) \in Range(order)
            /\ Aggregate[i][CodCRM] \in IdsIn(Pivot[CategoryOf(Aggregate[i])])
            /\ Occurrences(Aggregate[i][CodCRM]) = 1
        /\ \A c \in DOMAIN Pivot :
            IdsIn(Pivot[c]) \subseteq {Aggregate[i][CodCRM] : i \in DOMAIN Aggregate}

\* two pharmacies in two columns, one of them Unassigned
C5_Witness ==
    /\ status = "done"
    /\ \E i, j \in DOMAIN Aggregate :
        /\ CategoryOf(Aggregate[i]) = "Unassigned"
        /\ CategoryOf(Aggregate[j]) = "Gold"
        /\ Num(Aggregate[i][CodCRM]) \in Range(Pivot["Unassigned"])
        /\ NaN \notin Range(Pivot["Unassigned"])

RECURSIVE SumOver(_, _)
\* the sum of f over a finite set
SumOver(S, f) ==
    IF S = {} THEN 0
    ELSE LET x == CHOOSE y \in S : TRUE IN f[x] + SumOver(S \ {x}, f)

\* the row of the summary table with this label
SummaryRow(label) ==
    Summary[CHOOSE i \in DOMAIN Summary : Summary[i].partnership_category = label]

\* the pharmacies of the aggregate outside Unassigned
Ranked == {i \in DOMAIN Aggregate : CategoryOf(Aggregate[i]) # "Unassigned"}

\* C6: the summary table ends with one total row whose count and revenue
\* are the sums over the Silver, Gold and Platinum rows, which are the count
\* and the revenue of the pharmacies outside Unassigned; it is 0 and 0 when
\* there is none, also for an empty aggregate.
C6_GrandTotalRow ==
    status = "done" =>
        LET total == Summary[Len(Summary)]
        IN  /\ Len(Summary) = 5
            /\ total.partnership_category = TotalLabel
            /\ total.num_pharmacies =
                   SummaryRow("Silver").num_pharmacies
                   + SummaryRow("Gold").num_pharmacies
                   + SummaryRow("Platinum").num_pharmacies
            /\ total.total_revenue =
                   SummaryRow("Silver").total_revenue
                   + SummaryRow("Gold").total_revenue
                   + SummaryRow("Platinum").total_revenue
            /\ total.num_pharmacies = Cardinality(Ranked)
            /\ total.total_revenue =
                   SumOver(Ranked, [i \in Ranked |-> TotalOf(Aggregate[i])])
            /\ Ranked = {} =>
                   total.num_pharmacies = 0 /\ total.total_revenue = 0

\* a non-empty Unassigned row left out of a non-zero total
C6_Witness ==
    /\ status = "done"
    /\ SummaryRow("Unassigned").num_pharmacies = 1
    /\ SummaryRow("Unassigned").total_revenue > 0
    /\ Summary[5].num_pharmacies = 1

\* C10: when gold_min <= silver_min and platinum_min <= gold_max, as with
\* the default thresholds, no pharmacy is Silver: the Silver column of the
\* pivot holds no identifier and the Silver row of the summary counts none.
C10_SilverUnreachable ==
    (/\ status = "done"
     /\ thresholds.gold_min <= thresholds.silver_min
     /\ thresholds.platinum_min <= thresholds.gold_max) =>
        /\ \A i \in DOMAIN Aggregate : CategoryOf(Aggregate[i]) # "Silver"
        /\ IdsIn(Pivot["Silver"]) = {}
        /\ SummaryRow("Silver").num_pharmacies = 0
        /\ SummaryRow("Silver").total_revenue = 0

\* a pharmacy above silver_min under thresholds, other than the defaults,
\* that satisfy the two inequalities
C10_Witness ==
    /\ status = "done"
    /\ thresholds # DefaultThresholds
    /\ thresholds.gold_min <= thresholds.silver_min
    /\ thresholds.platinum_min <= thresholds.gold_max
    /\ \E i \in DOMAIN Aggregate :
        /\ TotalOf(Aggregate[i]) > thresholds.silver_min
        /\ TotalOf(Aggregate[i]) = thresholds.platinum_min


-----------------------------------------------------------------------------
(* Properties of the record filter (SpecFilter) *)

FixedRuleColumns == {Channel, Causale, ScopeFilter, ClusterCheck}

\* a row matches every inclusion list the user supplied
MatchesUserFilters(r) ==
    /\ channels # {} => r[Channel] \in channels
    /\ products # {} => r[ProductType] \in products
    /\ causale # {} => r[Causale] \in causale
    /\ canale # {} => r[Canale] \in canale
    /\ scope_filter # {} => r[ScopeFilter] \in scope_filter

\* a row satisfies the fixed eligibility rule
MatchesFixedRule(r) ==
    /\ r[Channel] = "Independent Pharmacies"
    /\ r[Causale] = "Vendita"
    /\ r[ScopeFilter] = "In scope"
    /\ r[ClusterCheck] \in {" 1.EL ", " 2.L "}

\* the positions of the uploaded rows that the lists and the rule admit
Admitted ==
    {i \in DOMAIN df.rows :
        MatchesUserFilters(df.rows[i]) /\ MatchesFixedRule(df.rows[i])}

AdmittedOf(crm) == {i \in Admitted : df.rows[i][CodCRM] = crm}

AdmittedIds == {df.rows[i][CodCRM] : i \in Admitted}

\* C2: the rows that reach the aggregates are exactly the uploaded rows that
\* match every supplied inclusion list and the fixed eligibility rule: the
\* rows kept are those rows in their order, each pharmacy's total is the sum
\* over its admitted rows, and the aggregate, the merged tier table, the
\* pivot and the summary hold the pharmacies of admitted rows and no other.
\* An execution that does not finish aggregates no row.
C2_ExactlyEligibleRowsContribute ==
    /\ status = "done" =>
        /\ merged_pharmacies[1] =
               SelectSeq(df.rows,
                         LAMBDA r : MatchesUserFilters(r) /\ MatchesFixedRule(r))
        /\ {Aggregate[i][CodCRM] : i \in DOMAIN Aggregate} = AdmittedIds
        /\ \A i \in DOMAIN Aggregate :
            TotalOf(Aggregate[i]) =
                SumOver(AdmittedOf(Aggregate[i][CodCRM]),
                        [k \in DOMAIN df.rows |-> df.rows[k][Revenue]])
        /\ {threshold_data[1][i][CodCRM] : i \in DOMAIN threshold_data[1]}
               = AdmittedIds
        /\ UNION {IdsIn(Pivot[c]) : c \in DOMAIN Pivot} = AdmittedIds
        /\ SumOver(1..4, [k \in 1..4 |-> Summary[k].num_pharmacies])
               = Cardinality(AdmittedIds)
        /\ SumOver(1..4, [k \in 1..4 |-> Summary[k].total_revenue])
               = SumOver(Admitted, [k \in DOMAIN df.rows |-> df.rows[k][Revenue]])
    /\ status # "done" =>
        /\ merged_pharmacies = None
        /\ all_pharmacy_revenue = None
        /\ summary_table = None

\* a supplied list rejects a row that the fixed rule accepts, next to a
\* row that is admitted
C2_Witness ==
    /\ status = "done"
    /\ program = "app"
    /\ products # {}
    /\ Admitted # {}
    /\ \E i \in DOMAIN df.rows :
        MatchesFixedRule(df.rows[i]) /\ ~MatchesUserFilters(df.rows[i])

\* C3: in app.py, when the table lacks the column of an optional filter
\* and has the four columns of the fixed rule, the filter is skipped: the
\* execution finishes with the rows that the other filters and the fixed
\* rule admit.
C3_AbsentFilterColumnIsSkipped ==
    (/\ program = "app"
     /\ uploaded_file
     /\ FixedRuleColumns \subseteq df.columns
     /\ AllWidgets \ df.columns # {}) =>
        /\ status = "done"
        /\ merged_pharmacies =
               Some(SelectSeq(df.rows,
                              LAMBDA r : MatchesUserFilters(r) /\ MatchesFixedRule(r)))

\* C4: when the table lacks one of the four columns of the fixed rule, the
\* execution ends in an error; it produces no aggregate, merged tier table,
\* pivot or summary, and "Store this run" cannot be clicked.
C4_MissingMandatoryColumnIsFatal ==
    (uploaded_file /\ ~(FixedRuleColumns \subseteq df.columns)) =>
        /\ status = "error"
        /\ error # ""
        /\ merged_pharmacies = None
        /\ all_pharmacy_revenue = None
        /\ threshold_data = None
        /\ category_table_pivot = None
        /\ summary_table = None
        /\ ~ButtonsRendered
        /\ ~ENABLED StoreRun

\* a table with eligible rows and no cluster-check column
C4_Witness ==
    /\ uploaded_file
    /\ ClusterCheck \notin df.columns
    /\ Channel \in df.columns
    /\ \E i \in DOMAIN df.rows : df.rows[i][Channel] = IndependentPharmacies
    /\ status = "error"
    /\ error = "KeyError:  Cluster Check "


-----------------------------------------------------------------------------
(* Properties of the aggregator (SpecAggregate) *)

MergedTable == threshold_data[1]

\* the distinct brands of one pharmacy in one tier, among the rows kept
BrandsOf(crm, tier) ==
    {r[Brand] : r \in {x \in Range(merged_pharmacies[1]) :
                          x[CodCRM] = crm /\ x[Tier] = tier}}

\* C7: for every pharmacy of the aggregate, "Tier 2 & 3" is the number of
\* its distinct Tier 2 products plus the number of its distinct Tier 3
\* products, a tier without rows of the pharmacy counting 0; it is a number
\* in every case.
C7_CombinedTierCount ==
    status = "done" =>
        \A i \in DOMAIN MergedTable :
            MergedTable[i]["Tier 2 & 3"] =
                Num(Cardinality(BrandsOf(MergedTable[i][CodCRM], "Tier 2"))
                    + Cardinality(BrandsOf(MergedTable[i][CodCRM], "Tier 3")))

\* the uploaded rows in another order
Permuted(table, p) ==
    [columns |-> table.columns,
     rows |-> [i \in DOMAIN table.rows |-> table.rows[p[i]]]]

\* C8: the aggregator's output for the uploaded rows taken in any other
\* order is the output shown: the same pharmacies in the same rows, each
\* once, with the same total revenue, Tier 2/3 revenue and per-tier
\* distinct product counts.
C8_OrderIndependent ==
    status = "done" =>
        /\ \A p \in Permutations(DOMAIN df.rows) :
            LET res == RunScript(program, Permuted(df, p), channels, products,
                                 causale, canale, scope_filter, thresholds)
            IN  /\ res.all_pharmacy_revenue = all_pharmacy_revenue
                /\ res.threshold_data = threshold_data
        /\ \A i, j \in DOMAIN Aggregate :
            Aggregate[i][CodCRM] = Aggregate[j][CodCRM] => i = j
        /\ \A i, j \in DOMAIN MergedTable :
            MergedTable[i][CodCRM] = MergedTable[j][CodCRM] => i = j

\* three rows, the higher identifier first, the two rows of one pharmacy
\* apart and in different tiers with different revenues
C8_Witness ==
    /\ status = "done"
    /\ Len(df.rows) = 3
    /\ df.rows[1][CodCRM] = 102 /\ df.rows[2][CodCRM] = 101
    /\ df.rows[3][CodCRM] = 102
    /\ df.rows[1][Revenue] # df.rows[3][Revenue]
    /\ df.rows[1][Tier] = "Tier 3" /\ df.rows[3][Tier] = "Tier 1"
    /\ Len(Aggregate) = 2
    /\ TotalOf(Aggregate[2]) = 1500


-----------------------------------------------------------------------------
(* Properties of the run store (Spec) *)

\* what one step does to the store: "Store this run" adds one record under
\* an id that was not in the store and leaves the records already there as
\* they were; "Clear all stored runs" empties the store; nothing else
\* changes it
RunStoreStep ==
    /\ clicked' = "Store this run" =>
        /\ \E id \in DOMAIN runs' \ DOMAIN runs :
            /\ DOMAIN runs' = DOMAIN runs \cup {id}
            /\ runs'[id].timestamp = now
            /\ runs'[id].thresholds = thresholds
            /\ runs'[id].summary_table = summary_table'[1]
        /\ \A k \in DOMAIN runs : runs'[k] = runs[k]
    /\ clicked' = "Clear all stored runs" => runs' = <<>>
    /\ clicked' = "" => runs' = runs

\* C9: the run store is empty at the start of the session and thereafter
\* holds exactly the runs stored since the last clear: every step of the
\* session changes it as RunStoreStep says.
C9_RunStoreHoldsRunsSinceClear == (runs = <<>>) /\ [][RunStoreStep]_vars

\* a second run stored next to the first, under other thresholds
C9_Witness ==
    /\ clicked = "Store this run"
    /\ DOMAIN runs = {1, 2}
    /\ runs[1].timestamp = 0
    /\ runs[2].timestamp = 1
    /\ runs[1].thresholds # runs[2].thresholds
    /\ runs[1].summary_table # runs[2].summary_table

=============================================================================
